---- MODULE Spec2Model ----
(***************************************************************************)
(* A model of src/function.h: function<R(Args...)>, a type-erased callable *)
(* container with a pointer-sized inline buffer (storage::small) and a     *)
(* table of four operations per concrete type (type_descriptor).           *)
(*                                                                         *)
(* The signature modelled is int(int).  A storage is a record              *)
(* [desc, small]: desc is the descriptor (EmptyDesc or a type name, one    *)
(* descriptor per type), small is what the bytes of the buffer hold: raw   *)
(* (indeterminate or destroyed) bytes, an object constructed in place, or  *)
(* a pointer.  The heap maps addresses to the objects allocated there.     *)
(*                                                                         *)
(* Every member function is an operator from a machine record              *)
(* [st, heap, log, exc, ret, ub] to the machine record after it; log has   *)
(* one entry per call made through a descriptor, exc is the exception in   *)
(* flight, ub says whether the run executed an undefined operation whose   *)
(* outcome was not harmless.  A run is followed up to such an operation:   *)
(* its outcomes are enumerated, and nothing is modelled after it.          *)
(***************************************************************************)
EXTENDS Integers, Sequences, FiniteSets, TLC

\* ------------------------------------------------------------- bounds
NCont == 2        \* containers the program declares
MaxHeap == 2      \* heap addresses 1..MaxHeap; new fails when none is free
MaxVal == 1       \* captured values 0..MaxVal
MaxArg == 1       \* call arguments 0..MaxArg

\* ---------------------------------------------------- program constants
PtrSize == 8      \* sizeof(void*): sizeof(container_t)
PtrAlign == 8     \* alignof(void*)

Cont == 1..NCont
TmpFunc == NCont + 1      \* `function tmp` of operator=
TmpStor == NCont + 2      \* `storage tmp` of storage::swap
Slots == 1..(NCont + 2)
Addr == 1..MaxHeap
Vals == 0..MaxVal
ArgVals == 0..MaxArg

NoExc == "none"
BadCall == "bad_function_call"
BadAlloc == "bad_alloc"
PayloadError == "payload_error"

\* ------------------------------------------------------ callable types
\* The concrete callable types the program instantiates the container with.
\* A closure type has no move assignment (its assignment operators are
\* deleted), so is_nothrow_move_assignable_v is false for it and a lambda is
\* never small-eligible, whatever its size; the inline path takes only
\* functor classes that declare a noexcept move assignment.
\*   SA  struct { int k; int operator()(int a) { return k + a; } } with the
\*       implicit (noexcept) copy and move members: 4 bytes      (inline)
\*   SC  struct { long n; int operator()(int a) { return ++n + a; } } with
\*       a user-written copy constructor that may throw and noexcept move
\*       constructor and move assignment: 8 bytes                (inline)
\*   LA  the lambda [k](int a) { return k + a; }, int k: 4 bytes, noexcept
\*       copy and move constructors, no move assignment         (heap)
\*   MC  the SC class with a move constructor that may throw     (heap)
Types == {"SA", "SC", "LA", "MC"}

TypeTable ==
  [T \in Types |->
     CASE T = "SA" -> [size |-> 4, align |-> 4, nothrowMove |-> TRUE,
                       nothrowAssign |-> TRUE, kind |-> "adder", copyThrows |-> FALSE]
       [] T = "SC" -> [size |-> 8, align |-> 8, nothrowMove |-> TRUE,
                       nothrowAssign |-> TRUE, kind |-> "counter", copyThrows |-> TRUE]
       [] T = "LA" -> [size |-> 4, align |-> 4, nothrowMove |-> TRUE,
                       nothrowAssign |-> FALSE, kind |-> "adder", copyThrows |-> FALSE]
       [] T = "MC" -> [size |-> 8, align |-> 8, nothrowMove |-> FALSE,
                       nothrowAssign |-> TRUE, kind |-> "counter", copyThrows |-> TRUE]]

TypeInfo(T) == TypeTable[T]

fits_small(T) ==
  /\ TypeInfo(T).size <= PtrSize
  /\ PtrAlign % TypeInfo(T).align = 0
  /\ TypeInfo(T).nothrowMove
  /\ TypeInfo(T).nothrowAssign

\* ------------------------------------------------------------- storage
EmptyDesc == "empty"
DeadDesc == "dead"        \* no object lives in the slot

Raw == [k |-> "raw", t |-> "none", v |-> 0]
Obj(T, v) == [k |-> "obj", t |-> T, v |-> v]
Ptr(p) == [k |-> "ptr", t |-> "none", v |-> p]

Dead == [desc |-> DeadDesc, small |-> Raw]
Free == [t |-> "free", v |-> 0]

get_empty_func_descriptor == EmptyDesc

get_descriptor(T) == T

\* storage::storage(): the descriptor is the empty one, the bytes are not set.
NewStorage == [desc |-> get_empty_func_descriptor, small |-> Raw]

\* storage::get<T>(): the place of the T a storage holds: the buffer itself
\* on the inline path, the address read from the buffer on the heap path
\* (0 when the bytes hold no pointer).
get(m, s, T) ==
  IF fits_small(T)
    THEN [loc |-> "inline", at |-> s]
    ELSE [loc |-> "heap",
          at |-> IF m.st[s].small.k = "ptr" THEN m.st[s].small.v ELSE 0]

\* Whether a fully constructed T lives at the place get<T>() names.
Constructed(m, s, T) ==
  IF T \notin Types THEN FALSE
  ELSE IF get(m, s, T).loc = "inline"
    THEN m.st[s].small.k = "obj" /\ m.st[s].small.t = T
    ELSE get(m, s, T).at \in Addr /\ m.heap[get(m, s, T).at].t = T

\* The value of the T at *get<T>() (0 when there is none).
Deref(m, s, T) ==
  LET r == get(m, s, T)
  IN IF ~Constructed(m, s, T) THEN 0
     ELSE IF r.loc = "inline" THEN m.st[s].small.v ELSE m.heap[r.at].v

\* storage::set(void*)
set(m, s, p) == [m EXCEPT !.st[s].small = Ptr(p)]

\* The storages that own the allocation at p: those whose descriptor is a
\* heap-stored type's and whose bytes hold p.
Owners(m, p) ==
  {s \in Slots : /\ m.st[s].desc \in Types
                 /\ ~fits_small(m.st[s].desc)
                 /\ m.st[s].small = Ptr(p)}

\* Every allocated object has exactly one owner.
UniqueOwners(m) ==
  \A p \in Addr : m.heap[p] # Free => Cardinality(Owners(m, p)) = 1

\* One entry of the call log: which descriptor function ran on which
\* storages, whether its destination was empty and whether the payload it
\* read or destroyed was a constructed object of the descriptor's type.
Entry(m, fn, d, dst, src) ==
  [fn |-> fn, desc |-> d, dst |-> dst, src |-> src,
   dstEmpty |-> m.st[dst].desc = get_empty_func_descriptor,
   srcEmpty |-> m.st[src].desc = get_empty_func_descriptor,
   payloadOk |-> d = get_empty_func_descriptor \/ Constructed(m, src, d),
   owned |-> UniqueOwners(m)]

Logged(m, fn, d, dst, src) ==
  [m EXCEPT !.log = Append(@, Entry(m, fn, d, dst, src))]

\* ------------------------------------------------- the empty descriptor
\* get_empty_func_descriptor(): copy and move only assert that both sides
\* are empty (the log keeps what the assertions saw), invoke throws, destroy
\* does nothing.
EmptyCopy(m, dst, src) == Logged(m, "copy", EmptyDesc, dst, src)

EmptyMove(m, dst, src) == Logged(m, "move", EmptyDesc, dst, src)

EmptyInvoke(m, s) ==
  [Logged(m, "invoke", EmptyDesc, s, s) EXCEPT !.exc = BadCall]

EmptyDestroy(m, s) == Logged(m, "destroy", EmptyDesc, s, s)

\* --------------------------------------------- get_descriptor<T>(): destroy
\* Inline: ~T() in place.  Heap: delete get<T>().  When no constructed T is
\* there the call is undefined.  The pointer deleted is then whatever the
\* bytes hold: a stale pointer, or for indeterminate bytes any value, which
\* env.garbage enumerates: 0 (null: delete does nothing), an address (that
\* allocation is released under its owner), -1 (not an allocation at all).
DeletedPointer(m, s, env) ==
  IF m.st[s].small.k = "ptr" THEN m.st[s].small.v ELSE env.garbage

TDestroy(m, T, s, env) ==
  IF Constructed(m, s, T)
    THEN IF fits_small(T)
           THEN [m EXCEPT !.st[s].small = Raw]
           ELSE [m EXCEPT !.heap[get(m, s, T).at] = Free]
  ELSE IF fits_small(T) THEN [m EXCEPT !.ub = TRUE]
  ELSE IF DeletedPointer(m, s, env) = 0 THEN m
  ELSE IF DeletedPointer(m, s, env) \in Addr
    THEN [m EXCEPT !.heap[DeletedPointer(m, s, env)] = Free, !.ub = TRUE]
  ELSE [m EXCEPT !.ub = TRUE]

\* desc->destroy(s)
DescDestroy(m, s, env) ==
  IF m.st[s].desc = EmptyDesc THEN EmptyDestroy(m, s)
  ELSE TDestroy(Logged(m, "destroy", m.st[s].desc, s, s), m.st[s].desc, s, env)

\* ------------------------------------------------ get_descriptor<T>(): copy
\* dst->desc is set last, after the payload is constructed.  new T(...)
\* throws bad_alloc when env.addr = 0, and T's copy constructor throws when
\* env.throw says so and T's may (the memory is then released again).
TCopyShallow(m, T, dst, src, env) ==
  IF fits_small(T)
    THEN IF env.throw /\ TypeInfo(T).copyThrows
           THEN [m EXCEPT !.exc = PayloadError]
           ELSE [m EXCEPT !.st[dst] = [desc |-> m.st[src].desc,
                                       small |-> Obj(T, Deref(m, src, T))]]
  ELSE IF env.addr = 0 THEN [m EXCEPT !.exc = BadAlloc]
  ELSE IF env.throw /\ TypeInfo(T).copyThrows
    THEN [m EXCEPT !.exc = PayloadError]
  ELSE [m EXCEPT !.st[dst] = [desc |-> m.st[src].desc,
                              small |-> Ptr(get(m, src, T).at)]]

TCopy(m, T, dst, src, env) ==
  IF ~Constructed(m, src, T) THEN [m EXCEPT !.ub = TRUE]
  ELSE IF fits_small(T)
    THEN IF env.throw /\ TypeInfo(T).copyThrows
           THEN [m EXCEPT !.exc = PayloadError]
           ELSE [m EXCEPT !.st[dst] = [desc |-> m.st[src].desc,
                                       small |-> Obj(T, Deref(m, src, T))]]
  ELSE IF env.addr = 0 THEN [m EXCEPT !.exc = BadAlloc]
  ELSE IF env.throw /\ TypeInfo(T).copyThrows
    THEN [m EXCEPT !.exc = PayloadError]
  ELSE [set(m, dst, env.addr) EXCEPT
          !.heap[env.addr] = [t |-> T, v |-> Deref(m, src, T)],
          !.st[dst].desc = m.st[src].desc]

\* src->desc->copy(dst, src)
DescCopy(m, dst, src, env) ==
  IF m.st[src].desc = EmptyDesc THEN EmptyCopy(m, dst, src)
  ELSE TCopy(Logged(m, "copy", m.st[src].desc, dst, src),
             m.st[src].desc, dst, src, env)

\* ------------------------------------------------ get_descriptor<T>(): move
\* Inline: move-construct into dst, destroy the source object, then dst
\* takes the descriptor and src the empty one.  Heap: the pointer is copied
\* into dst; the source's bytes keep the (now stale) pointer.
TMovePayloadReallocates(m, T, dst, src, env) ==
  IF fits_small(T)
    THEN DescDestroy([m EXCEPT !.st[dst].small = Obj(T, Deref(m, src, T))],
                     src, env)
  ELSE IF \A p \in Addr : m.heap[p] # Free THEN [m EXCEPT !.exc = BadAlloc]
  ELSE [set(m, dst, CHOOSE p \in Addr : m.heap[p] = Free) EXCEPT
          !.heap[CHOOSE p \in Addr : m.heap[p] = Free] = m.heap[get(m, src, T).at],
          !.heap[get(m, src, T).at] = Free]

TMovePayload(m, T, dst, src, env) ==
  IF fits_small(T)
    THEN DescDestroy([m EXCEPT !.st[dst].small = Obj(T, Deref(m, src, T))],
                     src, env)
    ELSE set(m, dst, get(m, src, T).at)

TMoveDescSourceFirst(m, dst, src) ==
  [m EXCEPT !.st[src].desc = get_empty_func_descriptor,
            !.st[dst].desc = get_empty_func_descriptor]

TMoveDescKeepSource(m, dst, src) ==
  [m EXCEPT !.st[dst].desc = m.st[src].desc]

TMoveDesc(m, dst, src) ==
  [m EXCEPT !.st[dst].desc = m.st[src].desc,
            !.st[src].desc = get_empty_func_descriptor]

TMove(m, T, dst, src, env) ==
  IF ~Constructed(m, src, T) THEN [m EXCEPT !.ub = TRUE]
  ELSE TMoveDesc(TMovePayload(m, T, dst, src, env), dst, src)

\* src->desc->move(dst, src)
DescMove(m, dst, src, env) ==
  IF m.st[src].desc = EmptyDesc THEN EmptyMove(m, dst, src)
  ELSE TMove(Logged(m, "move", m.st[src].desc, dst, src),
             m.st[src].desc, dst, src, env)

\* ---------------------------------------------- get_descriptor<T>(): invoke
\* The call operator of the payload on int(int): an adder returns its
\* captured value plus the argument; a counter counts the
\* call in its captured value first.
Call(T, v, a) ==
  IF TypeInfo(T).kind = "counter"
    THEN [v |-> v + 1, r |-> v + 1 + a]
    ELSE [v |-> v, r |-> v + a]

IntRet(n) == [k |-> "int", loc |-> "none", v |-> n]
NoRet == [k |-> "void", loc |-> "none", v |-> 0]

TInvokeByValue(m, T, s, a) ==
  IF ~Constructed(m, s, T) THEN [m EXCEPT !.ub = TRUE]
  ELSE IF fits_small(T)
    THEN [m EXCEPT !.st[s].small.v = Call(T, Deref(m, s, T), a).v,
                   !.ret = IntRet(Call(T, Deref(m, s, T), a).r)]
    ELSE [m EXCEPT !.ret = IntRet(Call(T, Deref(m, s, T), a).r)]

TInvoke(m, T, s, a) ==
  IF ~Constructed(m, s, T) THEN [m EXCEPT !.ub = TRUE]
  ELSE IF fits_small(T)
    THEN [m EXCEPT !.st[s].small.v = Call(T, Deref(m, s, T), a).v,
                   !.ret = IntRet(Call(T, Deref(m, s, T), a).r)]
    ELSE [m EXCEPT !.heap[get(m, s, T).at].v = Call(T, Deref(m, s, T), a).v,
                   !.ret = IntRet(Call(T, Deref(m, s, T), a).r)]

\* desc->invoke(s, a)
DescInvoke(m, s, a) ==
  IF m.st[s].desc = EmptyDesc THEN EmptyInvoke(m, s)
  ELSE TInvoke(Logged(m, "invoke", m.st[s].desc, s, s), m.st[s].desc, s, a)

\* ------------------------------------------------- type_descriptor::init
\* The descriptor is installed first, the payload constructed after it.  The
\* inline construction is a nothrow move.  On the heap path new T(...) throws
\* bad_alloc when env.addr = 0, and T's move constructor throws when
\* env.throw says so and T's may.
InitPayloadValueLost(m, s, T, v, env) ==
  IF fits_small(T) THEN [m EXCEPT !.st[s].small = Obj(T, 0)]
  ELSE IF env.addr = 0 THEN [m EXCEPT !.exc = BadAlloc]
  ELSE IF env.throw /\ ~TypeInfo(T).nothrowMove
    THEN [m EXCEPT !.exc = PayloadError]
  ELSE [set(m, s, env.addr) EXCEPT !.heap[env.addr] = [t |-> T, v |-> 0]]

InitPayload(m, s, T, v, env) ==
  IF fits_small(T) THEN [m EXCEPT !.st[s].small = Obj(T, v)]
  ELSE IF env.addr = 0 THEN [m EXCEPT !.exc = BadAlloc]
  ELSE IF env.throw /\ ~TypeInfo(T).nothrowMove
    THEN [m EXCEPT !.exc = PayloadError]
  ELSE [set(m, s, env.addr) EXCEPT !.heap[env.addr] = [t |-> T, v |-> v]]

init(m, s, T, v, env) ==
  InitPayload([m EXCEPT !.st[s].desc = get_descriptor(T)], s, T, v, env)

\* --------------------------------------------------------- struct storage
\* storage::~storage(): desc->destroy(this); the object is gone afterwards.
storage_dtor(m, s, env) ==
  [DescDestroy(m, s, env) EXCEPT !.st[s] = Dead]

\* storage::swap: three moves through a local, empty storage.
storage_swap_no_tmp(m, this, other, env) ==
  storage_dtor(
    DescMove(DescMove([m EXCEPT !.st[TmpStor] = NewStorage],
                      this, other, env),
             other, TmpStor, env),
    TmpStor, env)

storage_swap(m, this, other, env) ==
  storage_dtor(
    DescMove(DescMove(DescMove([m EXCEPT !.st[TmpStor] = NewStorage],
                               TmpStor, this, env),
                      this, other, env),
             other, TmpStor, env),
    TmpStor, env)

\* -------------------------------------------------- struct function<R(Args...)>
\* function(): the storage member is default-constructed.
function_default(m, c) == [m EXCEPT !.st[c] = NewStorage]

\* ~function(): destroys the storage member.
function_dtor(m, c, env) == storage_dtor(m, c, env)

\* A constructor's body left by an exception: the members (the storage) of
\* the object under construction are destroyed.
Unwind(m, c, env) ==
  IF m.exc # NoExc /\ ~m.ub THEN storage_dtor(m, c, env) ELSE m

\* function(function const&): delegates to function(), so when the copy
\* throws the object is destroyed again as a complete object.
function_copy_ctor(m, c, other, env) ==
  Unwind(DescCopy(function_default(m, c), c, other, env), c, env)

\* function(function&&) noexcept
function_move_ctor_copies(m, c, other, env) ==
  DescCopy(function_default(m, c), c, other, env)

function_move_ctor(m, c, other, env) ==
  DescMove(function_default(m, c), c, other, env)

\* function::swap
function_swap(m, c, other, env) == storage_swap(m, c, other, env)

\* The rest of operator= once tmp is constructed: swap(tmp), then tmp is
\* destroyed; nothing when tmp's constructor threw.
SwapWithTmp(m, c, env) ==
  IF m.exc # NoExc \/ m.ub THEN m
  ELSE function_dtor(function_swap(m, c, TmpFunc, env), TmpFunc, env)

\* operator=(function const&): copy into a temporary, swap, destroy it.
function_copy_assign_in_place(m, c, other, env) ==
  IF c = other THEN m
  ELSE DescCopy(function_default(function_dtor(m, c, env), c), c, other, env)

function_copy_assign(m, c, other, env) ==
  IF c = other THEN m
  ELSE SwapWithTmp(function_copy_ctor(m, TmpFunc, other, env), c, env)

\* operator=(function&&) noexcept
function_move_assign_no_self_check(m, c, other, env) ==
  SwapWithTmp(function_move_ctor(m, TmpFunc, other, env), c, env)

function_move_assign_destroy_first(m, c, other, env) ==
  IF c = other THEN m
  ELSE DescMove(function_default(function_dtor(m, c, env), c), c, other, env)

function_move_assign_direct(m, c, other, env) ==
  IF c = other THEN m
  ELSE DescMove(m, c, other, env)

function_move_assign(m, c, other, env) ==
  IF c = other THEN m
  ELSE SwapWithTmp(function_move_ctor(m, TmpFunc, other, env), c, env)

\* function(F f): the storage member is constructed, then init runs in the
\* constructor's body; when init throws, the member is destroyed with the
\* descriptor init has already installed.
function_from_callable(m, c, T, v, env) ==
  Unwind(init(function_default(m, c), c, T, v, env), c, env)

\* function::apply / operator()
apply_once(m, c, a) ==
  [DescInvoke(m, c, a) EXCEPT !.st[c].desc = get_empty_func_descriptor]

apply(m, c, a) == DescInvoke(m, c, a)

\* function::target<F>(): the descriptors are compared by identity.
NullPtr == [k |-> "ptr", loc |-> "null", v |-> 0]

target_any_type(m, c, F) ==
  IF m.st[c].desc # get_empty_func_descriptor
    THEN [m EXCEPT !.ret = [k |-> "ptr", loc |-> get(m, c, F).loc,
                            v |-> get(m, c, F).at]]
    ELSE [m EXCEPT !.ret = NullPtr]

target(m, c, F) ==
  IF m.st[c].desc = get_descriptor(F)
    THEN [m EXCEPT !.ret = [k |-> "ptr", loc |-> get(m, c, F).loc,
                            v |-> get(m, c, F).at]]
    ELSE [m EXCEPT !.ret = NullPtr]

\* explicit operator bool()
BoolRet(b) == [k |-> "bool", loc |-> "none", v |-> IF b THEN 1 ELSE 0]

operator_bool_always(m, c) == [m EXCEPT !.ret = BoolRet(TRUE)]

operator_bool(m, c) ==
  [m EXCEPT !.ret = BoolRet(m.st[c].desc # get_empty_func_descriptor)]

\* ------------------------------------------------------------- commands
\* One operation of the program on its containers, with what the
\* environment does during it: env.addr is what new returns (0: it throws
\* bad_alloc), env.throw whether a payload constructor that may throw does,
\* env.garbage the value of indeterminate bytes read as a pointer.
NoEnv == [addr |-> 0, throw |-> FALSE, garbage |-> 0]

Cmd(op, a, b, t, v, env) ==
  [op |-> op, a |-> a, b |-> b, t |-> t, v |-> v, env |-> env]

Run(m, cmd) ==
  CASE cmd.op = "default" -> function_default(m, cmd.a)
    [] cmd.op = "from_callable" ->
         function_from_callable(m, cmd.a, cmd.t, cmd.v, cmd.env)
    [] cmd.op = "copy_ctor" -> function_copy_ctor(m, cmd.a, cmd.b, cmd.env)
    [] cmd.op = "move_ctor" -> function_move_ctor(m, cmd.a, cmd.b, cmd.env)
    [] cmd.op = "copy_assign" -> function_copy_assign(m, cmd.a, cmd.b, cmd.env)
    [] cmd.op = "move_assign" -> function_move_assign(m, cmd.a, cmd.b, cmd.env)
    [] cmd.op = "swap" -> function_swap(m, cmd.a, cmd.b, cmd.env)
    [] cmd.op = "apply" -> apply(m, cmd.a, cmd.v)
    [] cmd.op = "target" -> target(m, cmd.a, cmd.t)
    [] cmd.op = "bool" -> operator_bool(m, cmd.a)
    [] cmd.op = "destroy" -> function_dtor(m, cmd.a, cmd.env)

LiveIn(m, s) == m.st[s].desc # DeadDesc

\* A counter is called only while its count stays within MaxVal.
CanCall(m, c) ==
  IF m.st[c].desc = EmptyDesc THEN TRUE
  ELSE IF TypeInfo(m.st[c].desc).kind # "counter" THEN TRUE
  ELSE Deref(m, c, m.st[c].desc) < MaxVal

\* What the language requires of the operands: a constructor runs on a slot
\* where no object lives, every other operation on living objects.
Pre(m, cmd) ==
  CASE cmd.op \in {"default", "from_callable"} -> ~LiveIn(m, cmd.a)
    [] cmd.op \in {"copy_ctor", "move_ctor"} ->
         ~LiveIn(m, cmd.a) /\ LiveIn(m, cmd.b)
    [] cmd.op \in {"copy_assign", "move_assign", "swap"} ->
         LiveIn(m, cmd.a) /\ LiveIn(m, cmd.b)
    [] cmd.op = "apply" -> LiveIn(m, cmd.a) /\ CanCall(m, cmd.a)
    [] cmd.op \in {"target", "bool", "destroy"} -> LiveIn(m, cmd.a)

\* ------------------------------------------------------------------ state
VARIABLES
  st,       \* st[s]: the storage in slot s (Dead when no object lives there)
  heap,     \* heap[p]: the object allocated at address p, or Free
  last,     \* the last operation: the command, its exception, result, call log
  ub,       \* TRUE once an undefined operation had a harmful outcome
  tw        \* a second run of the same commands with the placements exchanged

vars == <<st, heap, last, ub, tw>>

\* The machine an operation starts from.
Start(s, h) == [st |-> s, heap |-> h, log |-> <<>>, exc |-> NoExc,
                ret |-> NoRet, ub |-> FALSE]

Machine == Start(st, heap)

Outcome(cmd, m) ==
  [op |-> cmd.op, a |-> cmd.a, b |-> cmd.b, t |-> cmd.t, v |-> cmd.v,
   env |-> cmd.env, exc |-> m.exc, ret |-> m.ret, log |-> m.log]

\* The state after an operation that ran the machine to m.
Becomes(cmd, m) ==
  /\ st' = m.st
  /\ heap' = m.heap
  /\ ub' = m.ub
  /\ last' = Outcome(cmd, m)

Step(cmd) ==
  /\ ~ub
  /\ Pre(Machine, cmd)
  /\ \E m \in {Run(Machine, cmd)} : Becomes(cmd, m)
  /\ UNCHANGED tw

Live(s) == LiveIn(Machine, s)

FreeIn(h) == {p \in Addr : h[p] = Free}

\* What new can do: throw (0), or return any free address.
NewChoices == {0} \cup FreeIn(heap)

\* The environment's choices that an operation can meet.
AllocChoices(T) == IF T \in Types /\ ~fits_small(T) THEN NewChoices ELSE {0}

CopyThrowChoices(T) ==
  IF T \in Types /\ TypeInfo(T).copyThrows THEN BOOLEAN ELSE {FALSE}

MoveThrowChoices(T) ==
  IF ~fits_small(T) /\ ~TypeInfo(T).nothrowMove THEN BOOLEAN ELSE {FALSE}

GarbageChoices(T, p, th) ==
  IF ~fits_small(T) /\ (p = 0 \/ th) THEN -1..MaxHeap ELSE {0}

TwInit == [st |-> [s \in Slots |-> Dead], heap |-> [p \in Addr |-> Free],
           exc |-> NoExc, ret |-> NoRet, ub |-> FALSE, fault |-> FALSE]

Init ==
  /\ st = [s \in Slots |-> Dead]
  /\ heap = [p \in Addr |-> Free]
  /\ last = Outcome(Cmd("start", 0, 0, "none", 0, NoEnv), Machine)
  /\ ub = FALSE
  /\ tw = TwInit

\* ---------------------------------------------------------------- actions
\* The slots where a container lives, and those where one can be declared.
Living == {c \in Cont : Live(c)}
Vacant == {c \in Cont : ~Live(c)}

DefaultConstruct ==
  \E c \in Vacant : Step(Cmd("default", c, 0, "none", 0, NoEnv))

ConstructFromCallable ==
  \E c \in Vacant, T \in Types, v \in Vals :
    \E p \in AllocChoices(T), th \in MoveThrowChoices(T) :
      \E g \in GarbageChoices(T, p, th) :
        Step(Cmd("from_callable", c, 0, T, v,
                 [addr |-> p, throw |-> th, garbage |-> g]))

CopyConstruct ==
  \E c \in Vacant, o \in Living :
    \E p \in AllocChoices(st[o].desc), th \in CopyThrowChoices(st[o].desc) :
      Step(Cmd("copy_ctor", c, o, "none", 0,
               [addr |-> p, throw |-> th, garbage |-> 0]))

MoveConstruct ==
  \E c \in Vacant, o \in Living : Step(Cmd("move_ctor", c, o, "none", 0, NoEnv))

CopyAssign ==
  \E c \in Living, o \in Living :
    \E p \in AllocChoices(st[o].desc), th \in CopyThrowChoices(st[o].desc) :
      Step(Cmd("copy_assign", c, o, "none", 0,
               [addr |-> p, throw |-> th, garbage |-> 0]))

MoveAssign ==
  \E c \in Living, o \in Living : Step(Cmd("move_assign", c, o, "none", 0, NoEnv))

Swap ==
  \E c \in Living, o \in Living : Step(Cmd("swap", c, o, "none", 0, NoEnv))

Apply ==
  \E c \in Living, a \in ArgVals : Step(Cmd("apply", c, 0, "none", a, NoEnv))

Target ==
  \E c \in Living, F \in Types : Step(Cmd("target", c, 0, F, 0, NoEnv))

OperatorBool ==
  \E c \in Living : Step(Cmd("bool", c, 0, "none", 0, NoEnv))

Destroy ==
  \E c \in Living : Step(Cmd("destroy", c, 0, "none", 0, NoEnv))

Next ==
  \/ DefaultConstruct
  \/ ConstructFromCallable
  \/ CopyConstruct
  \/ MoveConstruct
  \/ CopyAssign
  \/ MoveAssign
  \/ Swap
  \/ Apply
  \/ Target
  \/ OperatorBool
  \/ Destroy

Spec == Init /\ [][Next]_vars

\* ------------------------------------------------- two runs side by side
\* The same program run twice, once with each callable type and once with
\* its counterpart of the other placement: the same callable small-eligible
\* in one run and heap-stored (a closure type, or a throwing move) in the
\* other.  tw is the second run; tw.fault says that in one of the runs new
\* has thrown, or the callable's move constructor has, while a container was
\* constructed from it.
Twin(T) ==
  CASE T = "SA" -> "LA"
    [] T = "LA" -> "SA"
    [] T = "SC" -> "MC"
    [] T = "MC" -> "SC"
    [] OTHER -> T

TwNow == Start(tw.st, tw.heap)

LowestFree(h) ==
  IF FreeIn(h) = {} THEN 0
  ELSE CHOOSE p \in FreeIn(h) : \A q \in FreeIn(h) : p <= q

\* The second run's command: the counterpart type, and its own allocator
\* (new throws when fails says so or no address is free).
TwinCmd(cmd, fails) ==
  [cmd EXCEPT !.t = Twin(@),
              !.env.addr = IF fails THEN 0 ELSE LowestFree(tw.heap)]

Fault(m1, m2, cmd) ==
  \/ m1.exc = BadAlloc
  \/ m2.exc = BadAlloc
  \/ cmd.op = "from_callable" /\ PayloadError \in {m1.exc, m2.exc}

TwAfter(m1, m2, cmd) ==
  [st |-> m2.st, heap |-> m2.heap, exc |-> m2.exc, ret |-> m2.ret,
   ub |-> m2.ub, fault |-> Fault(m1, m2, cmd)]

LockStep(cmd, tcmd) ==
  /\ ~ub /\ ~tw.ub /\ ~tw.fault
  /\ Pre(Machine, cmd)
  /\ Pre(TwNow, tcmd)
  /\ \E m1 \in {Run(Machine, cmd)}, m2 \in {Run(TwNow, tcmd)} :
       /\ Becomes(cmd, m1)
       /\ tw' = TwAfter(m1, m2, cmd)

Lock(cmd, fails) == \E tcmd \in {TwinCmd(cmd, fails)} : LockStep(cmd, tcmd)

FailChoices(T) == IF T \in Types /\ ~fits_small(T) THEN BOOLEAN ELSE {FALSE}

EqDefaultConstruct ==
  \E c \in Vacant : Lock(Cmd("default", c, 0, "none", 0, NoEnv), FALSE)

EqConstructFromCallable ==
  \E c \in Vacant, T \in Types, v \in Vals :
    \E p \in AllocChoices(T), f \in FailChoices(Twin(T)),
       th \in MoveThrowChoices(T) \cup MoveThrowChoices(Twin(T)) :
      \E g \in GarbageChoices(T, p, th) \cup GarbageChoices(Twin(T), IF f THEN 0 ELSE 1, th) :
        Lock(Cmd("from_callable", c, 0, T, v,
                 [addr |-> p, throw |-> th, garbage |-> g]), f)

EqCopyConstruct ==
  \E c \in Vacant, o \in Living :
    \E p \in AllocChoices(st[o].desc), f \in FailChoices(tw.st[o].desc),
       th \in CopyThrowChoices(st[o].desc) :
      Lock(Cmd("copy_ctor", c, o, "none", 0,
               [addr |-> p, throw |-> th, garbage |-> 0]), f)

EqMoveConstruct ==
  \E c \in Vacant, o \in Living : Lock(Cmd("move_ctor", c, o, "none", 0, NoEnv), FALSE)

EqCopyAssign ==
  \E c \in Living, o \in Living :
    \E p \in AllocChoices(st[o].desc), f \in FailChoices(tw.st[o].desc),
       th \in CopyThrowChoices(st[o].desc) :
      Lock(Cmd("copy_assign", c, o, "none", 0,
               [addr |-> p, throw |-> th, garbage |-> 0]), f)

EqMoveAssign ==
  \E c \in Living, o \in Living : Lock(Cmd("move_assign", c, o, "none", 0, NoEnv), FALSE)

EqSwap ==
  \E c \in Living, o \in Living : Lock(Cmd("swap", c, o, "none", 0, NoEnv), FALSE)

EqApply ==
  \E c \in Living, a \in ArgVals : Lock(Cmd("apply", c, 0, "none", a, NoEnv), FALSE)

EqTarget ==
  \E c \in Living, F \in Types : Lock(Cmd("target", c, 0, F, 0, NoEnv), FALSE)

EqOperatorBool ==
  \E c \in Living : Lock(Cmd("bool", c, 0, "none", 0, NoEnv), FALSE)

EqDestroy ==
  \E c \in Living : Lock(Cmd("destroy", c, 0, "none", 0, NoEnv), FALSE)

NextEq ==
  \/ EqDefaultConstruct
  \/ EqConstructFromCallable
  \/ EqCopyConstruct
  \/ EqMoveConstruct
  \/ EqCopyAssign
  \/ EqMoveAssign
  \/ EqSwap
  \/ EqApply
  \/ EqTarget
  \/ EqOperatorBool
  \/ EqDestroy

SpecEq == Init /\ [][NextEq]_vars

\* ----------------------------------------------------------- observations
Holding(m, c) == m.st[c].desc \in Types

\* The concrete type and the payload value a container holds.
Held(m, c) ==
  IF Holding(m, c)
    THEN [t |-> m.st[c].desc, v |-> Deref(m, c, m.st[c].desc)]
    ELSE [t |-> m.st[c].desc, v |-> 0]

\* What a caller can see of a container: its boolean conversion, for each
\* argument the exception or result of calling it, and for each type whether
\* target<F>() is present.
Observe(m, c) ==
  [bool |-> operator_bool(m, c).ret.v,
   call |-> [a \in ArgVals |-> [exc |-> apply(m, c, a).exc,
                                ret |-> apply(m, c, a).ret]],
   target |-> [F \in Types |-> target(m, c, F).ret.loc # "null"]]

Now == Machine
After == Start(st', heap')

LogOf(l) == {l.log[i] : i \in 1..Len(l.log)}


\* ----------------------------------------------------------------- claims

\* C1: in every reachable state each living storage's descriptor is the
\* empty descriptor or the descriptor of the type whose fully constructed
\* payload the storage holds, also after an operation that failed partway;
\* and no call through a descriptor (destroy included) ever runs on a
\* payload that is not a constructed object of the descriptor's type.
C1_DescriptorMatchesPayload ==
  /\ \A s \in Slots :
       Live(s) => st[s].desc = EmptyDesc \/ Constructed(Now, s, st[s].desc)
  /\ \A e \in LogOf(last) : e.payloadOk

\* C2: a move-construction or move-assignment from c1 (b) into a distinct
\* c2 (a) leaves c1 empty and indistinguishable from a default-constructed
\* container, and c2 holding the type and payload value c1 held before.
C2_MoveStep ==
  /\ last'.op \in {"move_ctor", "move_assign"}
  /\ last'.a # last'.b

C2_MoveEmptiesSource ==
  [][C2_MoveStep =>
       /\ last'.exc = NoExc
       /\ st'[last'.b].desc = EmptyDesc
       /\ Observe(After, last'.b) = Observe(function_default(After, last'.b), last'.b)
       /\ Observe(After, last'.b).bool = 0
       /\ \A x \in ArgVals : Observe(After, last'.b).call[x].exc = BadCall
       /\ Held(After, last'.a) = Held(Now, last'.b)
       /\ Constructed(Now, last'.b, st[last'.b].desc)
            => Constructed(After, last'.a, st'[last'.a].desc)]_vars

C2_Witness ==
  /\ last.op = "move_assign"
  /\ last.a # last.b
  /\ st[last.a].desc = "LA"
  /\ st[last.a].small.k = "ptr"
  /\ st[last.b].desc = EmptyDesc

\* C3: a copy gives the destination the source's type and value in a payload
\* of its own and leaves the source as it was; and no operation changes the
\* type, value or observable behaviour of a container it is not applied to:
\* the containers an operation on containers (a copy, a move, an assignment,
\* a swap, a call, a query, a destruction) may change are its target and,
\* for a move or a swap, its other operand.
Changed(l) ==
  {l.a} \cup (IF l.op \in {"move_ctor", "move_assign", "swap"} THEN {l.b} ELSE {})

OnContainers ==
  {"copy_ctor", "move_ctor", "copy_assign", "move_assign", "swap", "apply",
   "target", "bool", "destroy"}

C3_CopyIndependent ==
  [][/\ (last'.op \in {"copy_ctor", "copy_assign"} /\ last'.a # last'.b
           /\ last'.exc = NoExc)
        => /\ Held(After, last'.a) = Held(Now, last'.b)
           /\ st'[last'.b] = st[last'.b]
           /\ Holding(After, last'.a)
                => /\ Constructed(After, last'.a, st'[last'.a].desc)
                   /\ get(After, last'.a, st'[last'.a].desc)
                        # get(After, last'.b, st'[last'.b].desc)
     /\ \A c \in Cont :
          (Live(c) /\ c \notin Changed(last') /\ last'.op \in OnContainers)
            => /\ st'[c] = st[c]
               /\ Held(After, c) = Held(Now, c)
               /\ Observe(After, c) = Observe(Now, c)]_vars

C3_Witness ==
  /\ last.op = "copy_assign"
  /\ last.exc = NoExc
  /\ last.a # last.b
  /\ st[last.a].desc = "MC"
  /\ st[last.b].desc = "MC"
  /\ st[last.a].small.k = "ptr"
  /\ st[last.a].small # st[last.b].small
  /\ Held(Now, last.a).v = MaxVal
  /\ \E e \in LogOf(last) : e.fn = "destroy" /\ e.desc = "SA"

\* C4: a container in the Empty state, however reached, raises
\* bad_function_call when invoked and converts to false, and the failed call
\* changes nothing; a container holding a callable converts to true and its
\* invocation does not raise bad_function_call.
C4_EmptyInvocation ==
  /\ \A c \in Cont : Live(c) =>
       /\ (st[c].desc = EmptyDesc) = ~Holding(Now, c)
       /\ Observe(Now, c).bool = (IF Holding(Now, c) THEN 1 ELSE 0)
       /\ \A x \in ArgVals :
            /\ (apply(Now, c, x).exc = BadCall) = ~Holding(Now, c)
            /\ ~Holding(Now, c) =>
                 /\ apply(Now, c, x).st = st
                 /\ apply(Now, c, x).heap = heap
  /\ last.op = "apply" =>
       (last.exc = BadCall) = (st[last.a].desc = EmptyDesc)
  /\ last.op = "bool" => last.ret = BoolRet(Holding(Now, last.a))

C4_Witness ==
  /\ last.op = "apply"
  /\ last.exc = BadCall
  /\ st[last.a].small.k = "ptr"

\* C5: when the copy step of a = b fails (new throws, or the payload's copy
\* constructor does), the failure reaches the caller, a and b and every
\* allocation are as before the assignment, and no payload was destroyed.
CopyStepFails(m, src, env) ==
  /\ Holding(m, src)
  /\ \/ ~fits_small(m.st[src].desc) /\ env.addr = 0
     \/ TypeInfo(m.st[src].desc).copyThrows /\ env.throw

C5_CopyAssignStrongSafety ==
  [][(/\ last'.op = "copy_assign"
      /\ last'.a # last'.b
      /\ CopyStepFails(Now, last'.b, last'.env))
       => /\ last'.exc \in {BadAlloc, PayloadError}
          /\ last'.exc = BadAlloc
               <=> (~fits_small(st[last'.b].desc) /\ last'.env.addr = 0)
          /\ st' = st
          /\ heap' = heap
          /\ ~ub'
          /\ \A e \in LogOf(last') : e.fn = "destroy" => e.desc = EmptyDesc]_vars

C5_Witness ==
  /\ last.op = "copy_assign"
  /\ last.exc = BadAlloc
  /\ st[last.a].desc = "LA"
  /\ st[last.b].desc = "MC"

\* C6: at every call through a descriptor and after every operation, each
\* allocated heap object is owned by exactly one storage (a container, or
\* the temporary of a running assignment or swap): no two storages with a
\* concrete descriptor hold the same address, and the source of a move owns
\* nothing afterwards.  (A descriptor's move is taken as one step.)
C6_SingleOwner ==
  /\ \A p \in Addr : Cardinality(Owners(Now, p)) <= 1
  /\ UniqueOwners(Now)
  /\ \A e \in LogOf(last) : e.owned
  /\ (last.op \in {"move_ctor", "move_assign"} /\ last.a # last.b)
       => \A p \in Addr : last.b \notin Owners(Now, p)

C6_Witness ==
  /\ last.op = "swap"
  /\ last.a # last.b
  /\ st[last.a].desc = "LA"
  /\ st[last.b].desc = "MC"
  /\ Len(last.log) = 4

\* C7: swap exchanges the two containers' states exactly, whatever each
\* holds (nothing, an inline payload, a heap payload), and never fails.
C7_SwapExchanges ==
  [][last'.op = "swap"
       => /\ last'.exc = NoExc
          /\ ~ub'
          /\ Held(After, last'.a) = Held(Now, last'.b)
          /\ Held(After, last'.b) = Held(Now, last'.a)
          /\ Observe(After, last'.a) = Observe(Now, last'.b)
          /\ Observe(After, last'.b) = Observe(Now, last'.a)
          /\ \A c \in {last'.a, last'.b} :
               Holding(After, c) => Constructed(After, c, st'[c].desc)
          /\ heap' = heap]_vars

C7_Witness ==
  /\ last.op = "swap"
  /\ last.a # last.b
  /\ st[last.a].desc = "SC"
  /\ st[last.b].desc = "LA"
  /\ Held(Now, last.a).v # Held(Now, last.b).v

\* C8: target<F>() is present exactly when the container holds exactly the
\* type F, and then points at the payload; it is null for every other type
\* and for an empty container, a moved-from one included.  Descriptors are
\* compared by identity: one per type, distinct for distinct types.
C8_TargetIdentity ==
  /\ \A c \in Cont, F \in Types : Live(c) =>
       /\ (target(Now, c, F).ret # NullPtr) = (Held(Now, c).t = F)
       /\ target(Now, c, F).ret # NullPtr
            => /\ target(Now, c, F).ret.loc = get(Now, c, F).loc
               /\ target(Now, c, F).ret.v = get(Now, c, F).at
  /\ \A F \in Types, G \in Types :
       /\ get_descriptor(F) # get_empty_func_descriptor
       /\ (get_descriptor(F) = get_descriptor(G)) = (F = G)
  /\ last.op = "target" =>
       (last.ret # NullPtr) = (st[last.a].desc = last.t)

C8_Witness ==
  /\ last.op = "target"
  /\ last.t = "LA"
  /\ last.ret = NullPtr
  /\ st[last.a].desc = EmptyDesc
  /\ st[last.a].small.k = "ptr"

\* C9: c = c and c = std::move(c) change nothing: c holds the same type and
\* payload, and no payload is copied, moved or destroyed.
C9_SelfAssignNoOp ==
  [][(last'.op \in {"copy_assign", "move_assign"} /\ last'.a = last'.b)
       => /\ st' = st
          /\ heap' = heap
          /\ last'.exc = NoExc
          /\ last'.log = <<>>
          /\ Observe(After, last'.a) = Observe(Now, last'.a)]_vars

C9_Witness ==
  /\ last.op = "move_assign"
  /\ last.a = last.b
  /\ st[last.a].desc = "MC"

\* C10: run on a small-eligible callable and on the same callable
\* heap-stored, every sequence of operations gives the same observable
\* results at every step (each container empty or holding, the results and
\* errors of its calls, the presence of its targets), as long as in neither
\* run new has thrown nor the callable's move constructor has thrown while a
\* container was constructed from it.
RetSeen(r) == IF r.k = "ptr" THEN [k |-> "ptr", v |-> IF r = NullPtr THEN 0 ELSE 1]
              ELSE [k |-> r.k, v |-> r.v]

SameView(c) ==
  /\ LiveIn(Now, c) = LiveIn(TwNow, c)
  /\ (LiveIn(Now, c) /\ LiveIn(TwNow, c)) =>
       /\ Holding(Now, c) = Holding(TwNow, c)
       /\ Twin(Held(Now, c).t) = Held(TwNow, c).t
       /\ Observe(Now, c).bool = Observe(TwNow, c).bool
       /\ Observe(Now, c).call = Observe(TwNow, c).call
       /\ \A F \in Types :
            Observe(Now, c).target[F] = Observe(TwNow, c).target[Twin(F)]

SameResults ==
  /\ last.exc = tw.exc
  /\ RetSeen(last.ret) = RetSeen(tw.ret)
  /\ ub = tw.ub
  /\ \A c \in Cont : SameView(c)

C10_PathsEquivalent == ~tw.fault => SameResults

C10_Witness ==
  /\ ~tw.fault
  /\ last.op = "apply"
  /\ last.ret = IntRet(MaxVal + MaxArg)
  /\ st[last.a].desc = "MC"
  /\ tw.st[last.a].desc = "SC"
  /\ \E c \in Cont : c # last.a /\ st[c].desc = "LA" /\ tw.st[c].desc = "SA"

\* C10 as stated: the two runs give the same observable results at every
\* step of every sequence of operations.
C10_AsStated == SameResults

\* C11: a container constructed from a callable f holds f's type and value;
\* a call with argument a on a container holding a payload returns what the
\* payload's own call operator returns for a on the value the container
\* holds, and leaves the payload as that call leaves it; and a copy, a move
\* or a swap hands the calls' results on to the container that receives the
\* payload, so the same is true after any chain of them.
CallResults(m, c) == Observe(m, c).call

C11_RoundTrip ==
  [][/\ (last'.op = "from_callable" /\ last'.exc = NoExc)
          => /\ Held(After, last'.a) = [t |-> last'.t, v |-> last'.v]
             /\ \A x \in ArgVals :
                  CallResults(After, last'.a)[x] =
                    [exc |-> NoExc, ret |-> IntRet(Call(last'.t, last'.v, x).r)]
     /\ (last'.op = "apply" /\ Holding(Now, last'.a))
          => /\ last'.exc = NoExc
             /\ last'.ret =
                  IntRet(Call(Held(Now, last'.a).t, Held(Now, last'.a).v, last'.v).r)
             /\ Held(After, last'.a) =
                  [t |-> Held(Now, last'.a).t,
                   v |-> Call(Held(Now, last'.a).t, Held(Now, last'.a).v, last'.v).v]
     /\ (last'.op \in {"copy_ctor", "copy_assign", "move_ctor", "move_assign"}
           /\ last'.a # last'.b /\ last'.exc = NoExc)
          => CallResults(After, last'.a) = CallResults(Now, last'.b)
     /\ (last'.op \in {"copy_ctor", "copy_assign"} /\ last'.a # last'.b)
          => CallResults(After, last'.b) = CallResults(Now, last'.b)
     /\ last'.op = "swap"
          => /\ CallResults(After, last'.a) = CallResults(Now, last'.b)
             /\ CallResults(After, last'.b) = CallResults(Now, last'.a)]_vars

C11_Witness ==
  /\ last.op = "apply"
  /\ last.v = MaxArg
  /\ last.exc = NoExc
  /\ last.ret = IntRet(MaxVal + MaxArg)
  /\ st[last.a].desc = "LA"
  /\ \E c \in Cont : /\ c # last.a
                      /\ st[c].desc = EmptyDesc
                      /\ st[c].small = st[last.a].small

\* C12: every assertion of the descriptors' copy and move holds in every
\* call any operation makes, whatever the operands hold and also when they
\* are the same container: the destination of a concrete descriptor's copy
\* or move is empty when it is called (so no live payload is overwritten in
\* place), and source and destination of the empty descriptor's copy or move
\* are both empty.
AssertsHold(e) ==
  e.fn \in {"copy", "move"}
    => /\ e.dstEmpty
       /\ e.desc = get_empty_func_descriptor => e.srcEmpty
       /\ e.desc # get_empty_func_descriptor => ~e.srcEmpty

C12_AssertionsHold == \A e \in LogOf(last) : AssertsHold(e)

C12_Witness ==
  /\ last.op = "swap"
  /\ last.a = last.b
  /\ st[last.a].desc = "MC"
  /\ \E e \in LogOf(last) :
       e.fn = "move" /\ e.desc = EmptyDesc /\ e.dst = last.a /\ e.src = last.a
  /\ \E e \in LogOf(last) :
       e.fn = "move" /\ e.desc = "MC" /\ e.dst = last.a /\ e.src = TmpStor

\* C13: every payload is destroyed exactly once.  No call through a
\* descriptor (a destroy above all) runs on anything but a constructed
\* payload that has not been destroyed yet; a payload stays constructed as
\* long as a storage holds it; an inline object not yet destroyed lies in a
\* storage whose descriptor will destroy it, and an allocation not yet
\* released has exactly one owner that will release it; once every container
\* is destroyed nothing is left allocated; and the destruction of an empty
\* (or moved-from) container destroys no payload.
PayloadsLive(m) ==
  Cardinality({s \in Slots : m.st[s].small.k = "obj"})
    + Cardinality({p \in Addr : m.heap[p] # Free})

C13_DestroyedExactlyOnce ==
  [][/\ \A e \in LogOf(last') : e.payloadOk
     /\ \A s \in Slots :
          /\ Holding(After, s) => Constructed(After, s, st'[s].desc)
          /\ st'[s].small.k = "obj" => st'[s].desc = st'[s].small.t
     /\ UniqueOwners(After)
     /\ (\A s \in Slots : ~LiveIn(After, s)) => PayloadsLive(After) = 0
     /\ last'.op = "destroy"
          => /\ Len(last'.log) = 1
             /\ PayloadsLive(After) =
                  PayloadsLive(Now) - (IF Holding(Now, last'.a) THEN 1 ELSE 0)
             /\ \A c \in Cont \ {last'.a} : st'[c] = st[c]]_vars

\* C14: an assignment a = b or a = std::move(b) to a container a that holds
\* a payload, from a distinct b, when it returns: a first takes the new
\* payload (the move from the temporary into a, during the swap) and the old
\* payload is destroyed after that, as the last thing the assignment does,
\* by the temporary's destructor; a holds what b held; the old payload has
\* been destroyed exactly once (every destroy ran on a constructed object,
\* and one payload fewer is alive than were alive or were copied), and no
\* storage owns it: its allocation is released.
Assigns(l) ==
  /\ l.op \in {"copy_assign", "move_assign"}
  /\ l.a # l.b
  /\ l.exc = NoExc

\* The places in the log where a takes the payload of the temporary.
Transitions(l) ==
  {i \in 1..Len(l.log) :
     l.log[i].fn = "move" /\ l.log[i].dst = l.a /\ l.log[i].src = TmpFunc}

\* The places in the log where a destroy runs, with the descriptor d, on the
\* storage s.
Destroys(l, d, s) ==
  {i \in 1..Len(l.log) :
     l.log[i].fn = "destroy" /\ l.log[i].desc = d /\ l.log[i].src = s}

Copied(l) ==
  IF l.op = "copy_assign" /\ Holding(Now, l.b) THEN 1 ELSE 0

C14_TransitionThenDestroyOld ==
  [][(Assigns(last') /\ Holding(Now, last'.a))
       => /\ Cardinality(Transitions(last')) = 1
          /\ Len(last'.log) \in Destroys(last', st[last'.a].desc, TmpFunc)
          /\ \A i \in Transitions(last') : i < Len(last'.log)
          /\ \A e \in LogOf(last') : e.payloadOk
          /\ Held(After, last'.a) = Held(Now, last'.b)
          /\ PayloadsLive(After) = PayloadsLive(Now) + Copied(last') - 1
          /\ ~fits_small(st[last'.a].desc)
               => /\ heap'[st[last'.a].small.v] = Free
                  /\ Owners(After, st[last'.a].small.v) = {}
                  /\ Destroys(last', st[last'.a].desc, last'.a) = {}
          /\ ~LiveIn(After, TmpFunc)]_vars

C14_Witness ==
  /\ last.op = "copy_assign"
  /\ last.a # last.b
  /\ last.exc = NoExc
  /\ st[last.a].desc = "SC"
  /\ last.log[Len(last.log)].fn = "destroy"
  /\ last.log[Len(last.log)].desc = "LA"
  /\ last.log[Len(last.log)].src = TmpFunc

\* C14 as stated: the old payload is destroyed first, and a takes the new
\* payload after that.
C14_AsStated ==
  [][(Assigns(last') /\ Holding(Now, last'.a))
       => \E i \in Destroys(last', st[last'.a].desc, last'.a)
                    \cup Destroys(last', st[last'.a].desc, TmpFunc) :
            \A j \in Transitions(last') : i < j]_vars

\* C15: a move-construction, move-assignment or swap that moves a
\* heap-stored payload hands over the pointer: the destination owns the very
\* allocation the source owned, with the object in it untouched; no
\* allocation is made (no address free before is in use after, and no copy
\* runs); a move-construction or a swap leaves the whole heap as it is (a
\* move-assignment releases at most the target's old payload); and none of
\* them fails, also for a payload type whose move constructor may throw.
HeapHeld(m, c) == Holding(m, c) /\ ~fits_small(m.st[c].desc)

MovesHeap(l) ==
  \/ l.op \in {"move_ctor", "move_assign"} /\ l.a # l.b /\ HeapHeld(Now, l.b)
  \/ l.op = "swap" /\ (HeapHeld(Now, l.a) \/ HeapHeld(Now, l.b))

HandedOver(from, to) ==
  HeapHeld(Now, from)
    => /\ st'[to].desc = st[from].desc
       /\ st'[to].small = st[from].small
       /\ Owners(After, st[from].small.v) = {to}
       /\ heap'[st[from].small.v] = heap[st[from].small.v]

C15_HeapMoveNoAllocation ==
  [][MovesHeap(last')
       => /\ last'.exc = NoExc
          /\ ~ub'
          /\ HandedOver(last'.b, last'.a)
          /\ last'.op = "swap" => HandedOver(last'.a, last'.b)
          /\ \A p \in Addr : heap[p] = Free => heap'[p] = Free
          /\ \A e \in LogOf(last') : e.fn # "copy"
          /\ last'.op \in {"move_ctor", "swap"} => heap' = heap
          /\ last'.op = "move_assign"
               => \A p \in Addr :
                    heap'[p] # heap[p]
                      => HeapHeld(Now, last'.a) /\ st[last'.a].small = Ptr(p)]_vars

C15_Witness ==
  /\ last.op = "move_ctor"
  /\ last.exc = NoExc
  /\ st[last.a].desc = "MC"
  /\ st[last.b].desc = EmptyDesc
  /\ st[last.b].small = st[last.a].small
  /\ Constructed(Now, last.a, "MC")
  /\ Cardinality(FreeIn(heap)) = MaxHeap - 1

\* C16: a call, target<F>() for any F, and the boolean conversion leave the
\* container they are applied to with the descriptor it had, its payload
\* where it was (inline in the same storage, or at the same address) and
\* owned as before, and every other container exactly as it was; nothing is
\* allocated or released; target and the conversion change nothing at all,
\* and a call changes at most the value inside the payload it calls.
ReadOnly == {"apply", "target", "bool"}

Placement(m, c) ==
  IF Holding(m, c)
    THEN [k |-> m.st[c].small.k, at |-> get(m, c, m.st[c].desc)]
    ELSE [k |-> "none", at |-> [loc |-> "none", at |-> 0]]

C16_ReadOnlyFrame ==
  [][last'.op \in ReadOnly
       => /\ st'[last'.a].desc = st[last'.a].desc
          /\ Placement(After, last'.a) = Placement(Now, last'.a)
          /\ Holding(Now, last'.a)
               => Constructed(After, last'.a, st'[last'.a].desc)
          /\ \A p \in Addr :
               /\ Owners(After, p) = Owners(Now, p)
               /\ (heap'[p] = Free) = (heap[p] = Free)
               /\ heap'[p].t = heap[p].t
          /\ \A c \in Slots \ {last'.a} : st'[c] = st[c]
          /\ \A p \in Addr :
               heap'[p] # heap[p] => HeapHeld(Now, last'.a) /\ st[last'.a].small = Ptr(p)
          /\ \A e \in LogOf(last') : e.fn = "invoke"
          /\ last'.op \in {"target", "bool"}
               => st' = st /\ heap' = heap /\ last'.log = <<>> /\ last'.exc = NoExc
          /\ (last'.op = "apply" /\ ~Holding(Now, last'.a))
               => st' = st /\ heap' = heap
          /\ ~ub']_vars

C16_Witness ==
  /\ last.op = "target"
  /\ last.t = "MC"
  /\ last.ret # NullPtr
  /\ Held(Now, last.a) = [t |-> "MC", v |-> MaxVal]
  /\ \E c \in Cont : c # last.a /\ Held(Now, c) = [t |-> "SC", v |-> MaxVal]

\* C17: a.swap(a) leaves a as it was, whether a is empty or holds an inline
\* or a heap payload: the same type and value, the same behaviour, every
\* assertion of the three moves through the temporary holds (the second one
\* is the empty descriptor's, on a itself), every move and destroy runs on a
\* constructed payload, and as many payloads are alive after it as before,
\* the heap being untouched.
C17_SelfSwapNoOp ==
  [][(last'.op = "swap" /\ last'.a = last'.b)
       => /\ last'.exc = NoExc
          /\ ~ub'
          /\ st' = st
          /\ heap' = heap
          /\ Held(After, last'.a) = Held(Now, last'.a)
          /\ Observe(After, last'.a) = Observe(Now, last'.a)
          /\ Holding(Now, last'.a)
               => Constructed(After, last'.a, st'[last'.a].desc)
          /\ \A e \in LogOf(last') : AssertsHold(e) /\ e.payloadOk /\ e.owned
          /\ Cardinality({i \in 1..Len(last'.log) : last'.log[i].fn = "move"}) = 3
          /\ last'.log[Len(last'.log)].desc = get_empty_func_descriptor
          /\ PayloadsLive(After) = PayloadsLive(Now)]_vars

C17_Witness ==
  /\ last.op = "swap"
  /\ last.a = last.b
  /\ Held(Now, last.a) = [t |-> "SC", v |-> MaxVal]
  /\ Len(last.log) = 6

====
